---- MODULE Spec2Model ----
(***************************************************************************)
(* Whisper-Transcriber: the transcription client's retry loop              *)
(* (src/api/whisper.py, transcribe_audio) and its file validation          *)
(* (validate_file_content), the asynchronous analysis task tracker         *)
(* (src/server.py, AnalysisTask / analyze_async / process_analysis_task),  *)
(* the task queries (get_task_status, get_task_result) and the login       *)
(* verification (src/utils/telegram_auth.py, verify_telegram_init_data).   *)
(***************************************************************************)
EXTENDS Integers, Sequences, FiniteSets, TLC

(***************************************************************************)
(* Program constants                                                       *)
(***************************************************************************)
\* src/api/whisper.py:34
MAX_RETRIES == 3

\* src/api/whisper.py:30, `100 * 1024 * 1024`
MAX_FILE_SIZE == 104857600

(***************************************************************************)
(* Bounds of the model                                                     *)
(***************************************************************************)
\* number of analyze_async requests (tasks created) in one behaviour
MaxTasks == 2

\* longest filename handed to validate_file_content, in characters
MaxNameLen == 5

\* number of tasks created in one behaviour of the queries
MaxPolledTasks == 1

\* longest segment list handed to add_speaker_diarization
MaxSegments == 6

\* largest max_speakers handed to add_speaker_diarization
MaxSpeakers == 3

\* longest response text of the analysis endpoint, in pieces
MaxTextLen == 3

(***************************************************************************)
(* Remote outcomes of one HTTP attempt of transcribe_audio                 *)
(***************************************************************************)
\* Response statuses the remote endpoint may answer with: 200, other 2xx,
\* 3xx, the edges and the middle of 4xx, 5xx.
Statuses == {200, 204, 304, 399, 400, 404, 499, 500, 503}

\* What `session.post` / the body of the `async with` can end in
\* (src/api/whisper.py:237-289): a response with a status, asyncio.TimeoutError,
\* aiohttp.ClientConnectionError, or any other exception.
AttemptOutcomes ==
    [kind : {"response"}, status : Statuses]
      \cup [kind : {"timeout", "connection", "unexpected"}, status : {0}]

NoException == [attempt |-> 0, kind |-> "none", status |-> 0]
NoResult ==
    [kind |-> "none", attempt |-> 0, cause |-> NoException, diarized |-> FALSE]

VARIABLES
    tpc,             \* transcribe_audio: "idle", "loop", "done"
    attempt,         \* loop variable of `for attempt in range(MAX_RETRIES)`
    last_exception,  \* the local last_exception
    http_log,        \* outcomes of the HTTP attempts made so far, in order
    sleeps,          \* arguments of the asyncio.sleep calls made so far
    returned,        \* the value returned to the caller (NoResult if none)
    params,          \* the speaker_labels and min_speakers of the call
    raised,          \* the errors propagated to the caller, in order
    temp_file        \* TRUE while the NamedTemporaryFile exists on disk

retryVars == <<tpc, attempt, last_exception, http_log, sleeps, returned,
               raised, temp_file, params>>

VARIABLES
    tasks,       \* the AnalysisTask table: sequence of rows, id = index
    wpc,         \* per task: position of its process_analysis_task worker
    files,       \* per task: TRUE while its temporary upload file exists
    status_log,  \* per task: the statuses committed to its row, in order
    steps,       \* per task: outcomes of the worker's pipeline steps, in order
    writers      \* per task: the code paths that have written to its row

trackerVars == <<tasks, wpc, files, status_log, steps, writers>>

VARIABLES
    file_size,   \* validate_file_content: len(file_content)
    filename,    \* validate_file_content: the filename, a sequence of characters
    validation   \* "idle", "passed", or the reason of the FileValidationError

validateVars == <<file_size, filename, validation>>

VARIABLES
    auth_call,   \* verify_telegram_init_data: ENV, BOT_TOKEN, DEV_USERNAME,
                 \* the payload the platform signed and the init_data received
    auth_result  \* NotCalled, or what the call returned or raised

authVars == <<auth_call, auth_result>>

VARIABLES
    resp,        \* the response of the latest step when that step was a
                 \* query (get_task_status, get_task_result), else NoResponse
    observed     \* a poller of one task: the task it polls and the last two
                 \* different statuses get_task_status has answered it

pollVars == <<resp, observed>>

VARIABLES
    diar,        \* add_speaker_diarization: the call's segments and
                 \* max_speakers, and the locals of its loop
    claude,      \* analyze_transcript_with_claude: what the endpoint does,
                 \* the requests sent, and what the call returned or raised
    login        \* one request to /auth or one run of get_current_username:
                 \* the configuration, the credential, and the outcome

laterVars == <<diar, claude, login>>

vars == <<tpc, attempt, last_exception, http_log, sleeps, returned, raised,
          temp_file, params, tasks, wpc, files, status_log, steps, writers,
          file_size, filename, validation, auth_call, auth_result,
          resp, observed, diar, claude, login>>

\* what a call of add_speaker_diarization leaves alone
outsideDiarize == <<retryVars, trackerVars, validateVars, authVars, pollVars,
                    claude, login>>

\* what a call of analyze_transcript_with_claude leaves alone
outsideClaude == <<retryVars, trackerVars, validateVars, authVars, pollVars,
                   diar, login>>

\* what /auth and get_current_username leave alone
outsideLogin == <<retryVars, trackerVars, validateVars, authVars, pollVars,
                  diar, claude>>

\* what the steps of transcribe_audio leave alone
outsideRetry == <<trackerVars, validateVars, authVars, pollVars, laterVars>>

\* what the steps of the task tracker leave alone; they are no queries
outsideTracker == <<retryVars, validateVars, authVars, observed, laterVars>>


(***************************************************************************)
(* transcribe_audio (src/api/whisper.py:121-304)                           *)
(***************************************************************************)
\* `400 < response.status < 500`: the lower edge left out
IsClientErrorExclusive(status) == 400 < status /\ status < 500

\* `400 <= response.status < 500` (lines 258, 280)
IsClientError(status) == 400 <= status /\ status < 500

\* The except clauses of lines 270-289 decide whether the loop goes on:
\* TimeoutError, ClientConnectionError and a ClientResponseError whose status
\* is not 4xx are recorded in last_exception; everything else is raised.
IsRetried(o) ==
    \/ o.kind = "timeout"
    \/ o.kind = "connection"
    \/ o.kind = "response" /\ o.status # 200 /\ ~IsClientError(o.status)

\* `range(MAX_RETRIES + 1)`: one iteration too many
LoopContinuesInclusive(a) == a <= MAX_RETRIES

\* `for attempt in range(MAX_RETRIES)` has another iteration
LoopContinues(a) == a < MAX_RETRIES

\* `if attempt < MAX_RETRIES - 1` (line 292)
SleepsAfter(a) == a < MAX_RETRIES - 1

\* `2 * attempt`: linear instead of exponential
BackoffDelayLinear(a) == 2 * a

\* `2 ** attempt` (line 293)
BackoffDelay(a) == 2 ^ a

\* `last_exception = last_exception or e`: the first failure is kept
RecordFirstException(old, a, o) ==
    IF old.kind = "none"
    THEN [attempt |-> a + 1, kind |-> o.kind, status |-> o.status]
    ELSE old

\* `last_exception = e` (lines 271, 275, 284)
RecordException(old, a, o) ==
    [attempt |-> a + 1, kind |-> o.kind, status |-> o.status]

\* Lines 158-195: validation of the inputs and of the configuration, then
\* the temporary file.  Each check raises before anything else happens.
\* The NamedTemporaryFile (delete=False) of lines 193-195 is created and
\* written before the `try` of line 197: when the write raises, the
\* exception leaves transcribe_audio with the file on disk.
PreChecks == {"ok", "file_invalid", "params_invalid", "no_api_key", "no_api_url"}

PreCheckError(c) ==
    CASE c = "file_invalid"   -> "FileValidationError"
      [] c = "params_invalid" -> "ValueError"
      [] OTHER                -> "WhisperAPIError"

\* the temporary file created before the configuration is checked
TempFileBeforeConfigCheck(c) == c \in {"ok", "no_api_key", "no_api_url"}

\* line 193 is reached only when every check of lines 163-171 has passed
TempFileCreated(c) == c = "ok"

\* min_speakers is None (the value 0 itself is refused by
\* validate_parameters, lines 100-102, and never reaches the loop)
NoSpeakers == 0

\* The speaker parameters of a call that validate_parameters lets through:
\* speaker_labels is a bool, min_speakers is None or an int >= 1
ParamSets ==
    [speaker_labels : BOOLEAN, min_speakers : {NoSpeakers, 1, 2, 3}]

\* the post-processor applied whenever speaker labels are requested
DiarizesWheneverLabelled(speaker_labels, min_speakers) == speaker_labels

\* line 249: `if speaker_labels and min_speakers and min_speakers > 1`
Diarizes(speaker_labels, min_speakers) ==
    /\ speaker_labels
    /\ min_speakers # NoSpeakers
    /\ min_speakers > 1

Begin ==
    /\ tpc = "idle"
    /\ params' \in ParamSets
    /\ \E c \in PreChecks :
         IF c = "ok"
         THEN \E written \in BOOLEAN :
                /\ temp_file' = TempFileCreated(c)
                /\ IF written
                   THEN /\ tpc' = "loop"
                        /\ raised' = raised
                   ELSE /\ tpc' = "done"
                        /\ raised' = Append(raised,
                               [kind |-> "OSError", attempt |-> 0,
                                cause |-> NoException])
         ELSE /\ tpc' = "done"
              /\ temp_file' = TempFileCreated(c)
              /\ raised' = Append(raised,
                     [kind |-> PreCheckError(c), attempt |-> 0,
                      cause |-> NoException])
    /\ attempt' = 0
    /\ last_exception' = NoException
    /\ UNCHANGED <<http_log, sleeps, returned>>
    /\ UNCHANGED outsideRetry

\* One iteration of the loop body, lines 202-293: the request, the handling
\* of its outcome, and the backoff sleep that ends a retried iteration.
\* A return or a raise runs the `finally` of lines 299-304.
Attempt ==
    /\ tpc = "loop"
    /\ LoopContinues(attempt)
    /\ \E o \in AttemptOutcomes :
         /\ http_log' = Append(http_log, o)
         /\ IF o.kind = "response" /\ o.status = 200
            THEN /\ returned' =
                        [kind |-> "result", attempt |-> attempt + 1,
                         cause |-> NoException,
                         diarized |-> Diarizes(params.speaker_labels,
                                               params.min_speakers)]
                 /\ tpc' = "done"
                 /\ temp_file' = FALSE
                 /\ UNCHANGED <<attempt, last_exception, sleeps, raised>>
            ELSE IF IsRetried(o)
            THEN /\ last_exception' = RecordException(last_exception, attempt, o)
                 /\ sleeps' = IF SleepsAfter(attempt)
                              THEN Append(sleeps, BackoffDelay(attempt))
                              ELSE sleeps
                 /\ attempt' = attempt + 1
                 /\ UNCHANGED <<tpc, returned, raised, temp_file>>
            ELSE /\ raised' = Append(raised,
                        [kind |-> "WhisperAPIError", attempt |-> attempt + 1,
                         cause |-> [attempt |-> attempt + 1, kind |-> o.kind,
                                    status |-> o.status]])
                 /\ tpc' = "done"
                 /\ temp_file' = FALSE
                 /\ UNCHANGED <<attempt, last_exception, sleeps, returned>>
    /\ UNCHANGED params
    /\ UNCHANGED outsideRetry

\* Lines 295-297: the loop ran out; the error carries str(last_exception).
Exhausted ==
    /\ tpc = "loop"
    /\ ~LoopContinues(attempt)
    /\ raised' = Append(raised,
           [kind |-> "WhisperAPIError", attempt |-> 0, cause |-> last_exception])
    /\ tpc' = "done"
    /\ temp_file' = FALSE
    /\ UNCHANGED <<attempt, last_exception, http_log, sleeps, returned, params>>
    /\ UNCHANGED outsideRetry


(***************************************************************************)
(* The analysis task tracker (src/server.py)                               *)
(***************************************************************************)
\* TaskStatus (src/server.py:38-44)
PENDING == "pending"
TRANSCRIBING == "transcribing"
ANALYZING == "analyzing"
COMPLETED == "completed"
FAILED == "failed"
TaskStatus == {PENDING, TRANSCRIBING, ANALYZING, COMPLETED, FAILED}

\* Python's None, for the optional columns of AnalysisTask
None == "<None>"
\* Python truthiness of an optional string: `if error:` is false for None
\* and for the empty string
Truthy(x) == x # None /\ x # ""

\* The principals that pass get_current_username
Users == {"alice", "bob"}

\* the progress of a response that carries none
NoProgress == -1

\* What a query answers: the request (handler, task_id, username), the HTTP
\* status code, the detail of an HTTPException, the keys of the JSON body
\* with the task's values under them, and the HTML document.
Response(handler, task_id, username, code, detail, keys, task, document) ==
    [handler |-> handler, task_id |-> task_id, username |-> username,
     code |-> code, detail |-> detail, keys |-> keys,
     status |-> IF "status" \in keys THEN task.status ELSE None,
     progress |-> IF "progress" \in keys THEN task.progress ELSE NoProgress,
     error |-> IF "error" \in keys THEN task.error_message ELSE None,
     completed_at |-> IF "completed_at" \in keys THEN task.completed_at
                      ELSE None,
     document |-> document]

NoResponse ==
    [handler |-> "none", task_id |-> 0, username |-> None, code |-> 0,
     detail |-> <<>>, keys |-> {}, status |-> None, progress |-> NoProgress,
     error |-> None, completed_at |-> None, document |-> None]

\* a poller that has polled nothing yet
NotObserved == [task_id |-> 0, prev |-> None, last |-> None]

\* str(e) of an exception raised by a step of the worker
ErrorTexts == {"boom"}

\* the progress arguments of the update_task calls (lines 287, 291, 309, 319, 325)
ProgressStarted == 10
\* update_task's default `progress: int = 0` (line 263), what the call of
\* line 291 would pass without its second argument
ProgressValidatedDefault == 0
ProgressValidated == 30
ProgressAnalyzing == 70
ProgressCompleted == 100
ProgressFailed == 0

\* What the collaborators called by process_analysis_task can end in:
\* validate_audio_file(file_path) returns a path or raises;
\* transcribe_audio(file_path=...) returns a result whose "text" is non-empty
\* or empty/missing, or raises; generate_speaking_analysis(transcript=...,
\* filename=...) returns the report or raises.
ValidateOutcomes ==
    {[kind |-> "ok", text |-> ""]} \cup [kind : {"raise"}, text : ErrorTexts]

TranscribeOutcomes ==
    [kind : {"ok"}, text : {"hello", ""}] \cup [kind : {"raise"}, text : ErrorTexts]

AnalyzeOutcomes ==
    {[kind |-> "ok", text |-> "<!DOCTYPE html>"]}
      \cup [kind : {"raise"}, text : ErrorTexts]


\* AnalysisTask(username=..., filename=..., status=PENDING) with the column
\* defaults of lines 47-58
NewTask(username) ==
    [username |-> username, status |-> PENDING, progress |-> 0,
     transcript |-> None, analysis_html |-> None, error_message |-> None,
     completed_at |-> None]

\* update_task stamping completed_at on every terminal status
UpdateTaskCompletedAtAnyTerminal(task, status, progress, error, transcript, analysis) ==
    [task EXCEPT
       !.status = status,
       !.progress = progress,
       !.error_message = IF Truthy(error) THEN error ELSE @,
       !.transcript = IF Truthy(transcript) THEN transcript ELSE @,
       !.analysis_html = IF Truthy(analysis) THEN analysis ELSE @,
       !.completed_at = IF status \in {COMPLETED, FAILED} THEN "utcnow" ELSE @]

\* The assignments of update_task, lines 269-278
UpdateTask(task, status, progress, error, transcript, analysis) ==
    [task EXCEPT
       !.status = status,
       !.progress = progress,
       !.error_message = IF Truthy(error) THEN error ELSE @,
       !.transcript = IF Truthy(transcript) THEN transcript ELSE @,
       !.analysis_html = IF Truthy(analysis) THEN analysis ELSE @,
       !.completed_at = IF status = COMPLETED THEN "utcnow" ELSE @]

\* an update that is not restricted to the row of task_id
StoreCommitAllRows(table, task_id, row) ==
    [i \in DOMAIN table |-> row]

\* session.get(AnalysisTask, task_id) ... session.commit(): the row of
\* task_id is replaced, the other rows are untouched
StoreCommit(table, task_id, row) ==
    [table EXCEPT ![task_id] = row]

\* update_task as a whole (lines 263-281): when the session raises, the
\* exception is logged and swallowed and the table is left as it was
UpdateTable(table, task_id, committed, status, progress, error, transcript, analysis) ==
    IF committed
    THEN StoreCommit(table, task_id,
             UpdateTask(table[task_id], status, progress, error, transcript, analysis))
    ELSE table

\* the statuses a row has held: a committed write of a different status is
\* appended
Logged(log, task_id, table) ==
    [log EXCEPT ![task_id] =
        IF table[task_id].status = @[Len(@)] THEN @
        ELSE Append(@, table[task_id].status)]

\* an exception that reaches the handler of line 765 after create_task has
\* scheduled the worker
WorkerSpawnedBeforeFailure == "begin"

\* asyncio.create_task (line 753) is the last statement of the `try`: when
\* the handler of line 765 runs, no worker has been scheduled
WorkerAfterFailedStart == "none"

\* analyze_async (lines 708-786): creates the row, writes the upload to a
\* temporary file and spawns the worker; when that fails, marks the row
\* FAILED (status and error_message only), removes the file and answers 500.
\* The handler of lines 765-774 opens its session before safe_cleanup: when
\* the session raises, the cleanup is skipped and the file stays if the
\* failure came after open() had created it.
AnalyzeAsyncBy(principals) ==
    /\ Len(tasks) < MaxTasks
    /\ \E username \in principals, started \in BOOLEAN, msg \in ErrorTexts,
          committed \in BOOLEAN, file_written \in BOOLEAN :
         LET task_id == Len(tasks) + 1
             created == Append(tasks, NewTask(username))
             failed  == [created[task_id] EXCEPT
                            !.status = FAILED, !.error_message = msg]
         IN  IF started
             THEN /\ tasks' = created
                  /\ wpc' = Append(wpc, "begin")
                  /\ files' = Append(files, TRUE)
                  /\ status_log' = Append(status_log, <<PENDING>>)
                  /\ writers' = Append(writers, {})
             ELSE /\ tasks' = IF committed
                              THEN StoreCommit(created, task_id, failed)
                              ELSE created
                  /\ wpc' = Append(wpc, WorkerAfterFailedStart)
                  /\ files' = Append(files, ~committed /\ file_written)
                  /\ writers' = Append(writers, {"entry"})
                  /\ status_log' = Logged(Append(status_log, <<PENDING>>),
                                          task_id, tasks')
    /\ steps' = Append(steps, <<>>)
    /\ resp' = NoResponse
    /\ UNCHANGED outsideTracker

AnalyzeAsync == AnalyzeAsyncBy(Users)

\* The except/finally of process_analysis_task, lines 323-328
WorkerFails(t, msg, committed) ==
    /\ tasks' = UpdateTable(tasks, t, committed, FAILED, ProgressFailed,
                            msg, None, None)
    /\ status_log' = Logged(status_log, t, tasks')
    /\ wpc' = [wpc EXCEPT ![t] = "done"]
    /\ files' = [files EXCEPT ![t] = FALSE]

\* every call of update_task is a write of the worker to its task's row
WorkerWrites(t) == writers' = [writers EXCEPT ![t] = @ \cup {"worker"}]

\* line 287
WorkerBegin(t) ==
    /\ wpc[t] = "begin"
    /\ \E committed \in BOOLEAN :
         /\ tasks' = UpdateTable(tasks, t, committed, TRANSCRIBING,
                                 ProgressStarted, None, None, None)
         /\ status_log' = Logged(status_log, t, tasks')
    /\ wpc' = [wpc EXCEPT ![t] = "validate"]
    /\ UNCHANGED <<files, steps>>
    /\ WorkerWrites(t)
    /\ resp' = NoResponse
    /\ UNCHANGED outsideTracker

\* lines 289-291
WorkerValidate(t) ==
    /\ wpc[t] = "validate"
    /\ \E out \in ValidateOutcomes, committed \in BOOLEAN :
         /\ steps' = [steps EXCEPT ![t] = Append(@, out.kind)]
         /\ IF out.kind = "ok"
            THEN /\ tasks' = UpdateTable(tasks, t, committed, TRANSCRIBING,
                                         ProgressValidated, None, None, None)
                 /\ status_log' = Logged(status_log, t, tasks')
                 /\ wpc' = [wpc EXCEPT ![t] = "transcribe"]
                 /\ UNCHANGED files
            ELSE WorkerFails(t, out.text, committed)
    /\ WorkerWrites(t)
    /\ resp' = NoResponse
    /\ UNCHANGED outsideTracker

\* lines 293-309
WorkerTranscribe(t) ==
    /\ wpc[t] = "transcribe"
    /\ \E out \in TranscribeOutcomes, committed \in BOOLEAN :
         /\ steps' = [steps EXCEPT ![t] =
                Append(@, IF out.kind = "ok" /\ ~Truthy(out.text)
                          THEN "empty" ELSE out.kind)]
         /\ IF out.kind = "ok"
            THEN IF Truthy(out.text)
                 THEN /\ tasks' = UpdateTable(tasks, t, committed, ANALYZING,
                                       ProgressAnalyzing, None, out.text, None)
                      /\ status_log' = Logged(status_log, t, tasks')
                      /\ wpc' = [wpc EXCEPT ![t] = "analyze"]
                      /\ UNCHANGED files
                 ELSE WorkerFails(t, "Transcription failed or empty", committed)
            ELSE WorkerFails(t, out.text, committed)
    /\ WorkerWrites(t)
    /\ resp' = NoResponse
    /\ UNCHANGED outsideTracker

\* lines 312-321
WorkerAnalyze(t) ==
    /\ wpc[t] = "analyze"
    /\ \E out \in AnalyzeOutcomes, committed \in BOOLEAN :
         /\ steps' = [steps EXCEPT ![t] = Append(@, out.kind)]
         /\ IF out.kind = "ok"
            THEN /\ tasks' = UpdateTable(tasks, t, committed, COMPLETED,
                                         ProgressCompleted, None, None, out.text)
                 /\ status_log' = Logged(status_log, t, tasks')
                 /\ wpc' = [wpc EXCEPT ![t] = "done"]
                 /\ files' = [files EXCEPT ![t] = FALSE]
            ELSE WorkerFails(t, out.text, committed)
    /\ WorkerWrites(t)
    /\ resp' = NoResponse
    /\ UNCHANGED outsideTracker

InitTracker ==
    /\ tasks = <<>>
    /\ wpc = <<>>
    /\ files = <<>>
    /\ status_log = <<>>
    /\ steps = <<>>
    /\ writers = <<>>

PollIdle ==
    /\ resp = NoResponse
    /\ observed = NotObserved

InitRetry ==
    /\ tpc = "idle"
    /\ attempt = 0
    /\ last_exception = NoException
    /\ http_log = <<>>
    /\ sleeps = <<>>
    /\ returned = NoResult
    /\ raised = <<>>
    /\ temp_file = FALSE
    /\ params = [speaker_labels |-> FALSE, min_speakers |-> NoSpeakers]

(***************************************************************************)
(* validate_file_content (src/api/whisper.py:47-74)                        *)
(***************************************************************************)
\* Characters of the filenames: two letters of an allowed extension, an
\* upper-case letter, the dot and the path separator.
Chars == {"a", "A", "c", ".", "/"}

\* Sizes of the content around both limits of the size checks.
FileSizes == {0, 1, MAX_FILE_SIZE - 1, MAX_FILE_SIZE, MAX_FILE_SIZE + 1}

Filenames == UNION {[1..n -> Chars] : n \in 0..MaxNameLen}

\* SUPPORTED_AUDIO_TYPES (lines 24-27)
SUPPORTED_AUDIO_TYPES ==
    { <<".", "m", "p", "3">>, <<".", "m", "p", "4">>,
      <<".", "m", "p", "e", "g">>, <<".", "m", "p", "g", "a">>,
      <<".", "m", "4", "a">>, <<".", "w", "a", "v">>,
      <<".", "w", "e", "b", "m">>, <<".", "f", "l", "a", "c">>,
      <<".", "o", "g", "g">>, <<".", "o", "g", "a">>,
      <<".", "o", "p", "u", "s">>, <<".", "3", "g", "p">>,
      <<".", "a", "a", "c">>, <<".", "a", "m", "r">> }

\* str.lower() on the characters of Chars
Lower(str) == [i \in 1..Len(str) |-> IF str[i] = "A" THEN "a" ELSE str[i]]

\* the components of a path: the text between separators
Split(path) ==
    LET F[i \in 0..Len(path)] ==
          IF i = 0 THEN << <<>> >>
          ELSE IF path[i] = "/" THEN Append(F[i - 1], <<>>)
          ELSE [F[i - 1] EXCEPT ![Len(F[i - 1])] = Append(@, path[i])]
    IN  F[Len(path)]

\* Path(filename).name: the last component; pathlib drops empty components
\* and "." components
PathName(path) ==
    LET parts == SelectSeq(Split(path), LAMBDA c : c # <<>> /\ c # <<".">>)
    IN  IF parts = <<>> THEN <<>> ELSE parts[Len(parts)]

\* Path(filename).suffix: the name from its last dot on, when that dot is
\* neither the first nor the last character of the name
PathSuffix(path) ==
    LET name == PathName(path)
        dots == {i \in 1..Len(name) : name[i] = "."}
        last == IF dots = {} THEN 0
                ELSE CHOOSE i \in dots : \A j \in dots : j <= i
    IN  IF 1 < last /\ last < Len(name)
        THEN SubSeq(name, last, Len(name))
        ELSE <<>>

\* `file_size >= MAX_FILE_SIZE`
FileTooLargeInclusive(size) == size >= MAX_FILE_SIZE

\* `file_size > MAX_FILE_SIZE` (line 64)
FileTooLarge(size) == size > MAX_FILE_SIZE

\* validate_file_content: "passed", or the reason of the error it raises
validate_file_content(size, name) ==
    IF size = 0 THEN "File content is empty"
    ELSE IF FileTooLarge(size) THEN "File too large"
    ELSE IF Lower(PathSuffix(name)) \notin SUPPORTED_AUDIO_TYPES
         THEN "Unsupported file type"
    ELSE "passed"

ValidateFileContent ==
    /\ validation = "idle"
    /\ validation' = validate_file_content(file_size, filename)
    /\ UNCHANGED <<file_size, filename, retryVars, trackerVars, authVars,
                   pollVars, laterVars>>

ValidateIdle ==
    /\ file_size = 0
    /\ filename = <<>>
    /\ validation = "idle"

ValidateInputs ==
    /\ file_size \in FileSizes
    /\ filename \in Filenames
    /\ validation = "idle"

NextValidate == ValidateFileContent

(***************************************************************************)
(* verify_telegram_init_data (src/utils/telegram_auth.py:16-125)           *)
(***************************************************************************)
\* `24 * 60 * 60` (line 13)
MAX_AUTH_AGE == 86400

\* int(time.time()) at the moment of the call (line 62)
CurrentTime == 100000

\* Values of config.ENV and of BOT_TOKEN (line 8); the platform signs with
\* the bot's token "tok".
Envs == {"dev", "prod"}
BotTokens == {"", "tok", "other"}
PlatformToken == "tok"

\* os.getenv("DEV_USERNAME") (line 32)
DevUsernames == {<<"A">>}

\* Values of the auth_date field: absent, blank, one second too old, exactly
\* MAX_AUTH_AGE old, current, not a number.
AuthDates == {None, "", "13599", "13600", "100000", "abc"}

NotAnInt == -1

\* int(auth_date) (line 61); NotAnInt stands for the ValueError
ParseInt(str) ==
    CASE str = "13599"  -> 13599
      [] str = "13600"  -> 13600
      [] str = "100000" -> 100000
      [] OTHER          -> NotAnInt

\* Values of the user field: absent, or a JSON text.
UserJsons ==
    { None,
      "{\"id\":42,\"username\":\"Aa\"}",
      "{\"id\":42,\"username\":\" A \"}",
      "{\"id\":42,\"username\":\" \"}",
      "{\"id\":42}",
      "{\"id\":\"42\",\"username\":\"Aa\"}",
      "{\"username\":\"Aa\"}",
      "[]",
      "{" }

\* json.loads (line 98): the shape of the document, the type of its "id",
\* and user_data.get("username", "") as a sequence of characters
json_loads(text) ==
    CASE text = "{\"id\":42,\"username\":\"Aa\"}"
           -> [shape |-> "dict", id |-> "int", username |-> <<"A", "a">>]
      [] text = "{\"id\":42,\"username\":\" A \"}"
           -> [shape |-> "dict", id |-> "int", username |-> <<" ", "A", " ">>]
      [] text = "{\"id\":42,\"username\":\" \"}"
           -> [shape |-> "dict", id |-> "int", username |-> <<" ">>]
      [] text = "{\"id\":42}"
           -> [shape |-> "dict", id |-> "int", username |-> <<>>]
      [] text = "{\"id\":\"42\",\"username\":\"Aa\"}"
           -> [shape |-> "dict", id |-> "str", username |-> <<"A", "a">>]
      [] text = "{\"username\":\"Aa\"}"
           -> [shape |-> "dict", id |-> "NoneType", username |-> <<"A", "a">>]
      [] text = "{}"
           -> [shape |-> "dict", id |-> "NoneType", username |-> <<>>]
      [] text = "[]"
           -> [shape |-> "list", id |-> "NoneType", username |-> <<>>]
      [] OTHER
           -> [shape |-> "JSONDecodeError", id |-> "NoneType", username |-> <<>>]

\* str.strip() on a sequence of characters
Strip(str) ==
    LET solid == {i \in 1..Len(str) : str[i] # " "}
    IN  IF solid = {} THEN <<>>
        ELSE SubSeq(str, CHOOSE i \in solid : \A j \in solid : i <= j,
                         CHOOSE i \in solid : \A j \in solid : j <= i)

\* The fields of a payload besides the hash; None marks an absent field.
Payloads == [auth_date : AuthDates, query_id : {"q1", "q2"}, user : UserJsons]

\* hmac.new(key, msg, sha256): distinct (key, msg) give distinct digests
Hmac(key, msg) == [kind |-> "hmac", key |-> key, msg |-> msg]

\* a data-check string that leaves the user field out
DataCheckStringWithoutUser(parsed) ==
    SelectSeq(<< <<"auth_date", parsed.auth_date>>,
                 <<"query_id", parsed.query_id>> >>,
              LAMBDA kv : kv[2] # None)

\* line 75: the "k=v" lines of the fields present, sorted by key; the
\* values hold no line break
DataCheckString(parsed) ==
    SelectSeq(<< <<"auth_date", parsed.auth_date>>,
                 <<"query_id", parsed.query_id>>,
                 <<"user", parsed.user>> >>,
              LAMBDA kv : kv[2] # None)

\* lines 79-80: the digest of the data-check string under the secret key
\* derived from a bot token
CalculatedHash(token, parsed) ==
    Hmac(Hmac("WebAppData", token), DataCheckString(parsed))

\* the hash field when absent and when blank
NoHash == [kind |-> "absent", key |-> Hmac("WebAppData", ""), msg |-> <<>>]
BlankHash == [kind |-> "blank", key |-> Hmac("WebAppData", ""), msg |-> <<>>]

\* `age > 2 * MAX_AUTH_AGE`
ExpiredAfterTwoDays(age) == age > 2 * MAX_AUTH_AGE

\* `age > MAX_AUTH_AGE` (line 65)
Expired(age) == age > MAX_AUTH_AGE

NotCalled == [kind |-> "idle", message |-> "", username |-> <<>>]
Raise(message) == [kind |-> "raise", message |-> message, username |-> <<>>]
Return(username) == [kind |-> "return", message |-> "", username |-> username]

\* lines 96-125: the user document of a payload whose signature passed
ExtractUser(parsed) ==
    LET user_json == IF parsed.user = None THEN "{}" ELSE parsed.user
        user_data == json_loads(user_json)
        username  == Lower(Strip(user_data.username))
    IN  IF user_data.shape = "JSONDecodeError"
        THEN Raise("Invalid user data format")
        ELSE IF user_data.shape # "dict" \/ user_data.id # "int"
                  \/ username = <<>>
        THEN Raise("User data validation failed")
        ELSE Return(username)

\* verify_telegram_init_data: what the call returns or raises.  The
\* ValueError("Authentication data expired") of line 67 is caught by the
\* `except (ValueError, TypeError)` of line 70 and leaves as
\* "Invalid auth_date".
verify_telegram_init_data(call) ==
    LET parsed    == call.init_data.fields
        auth_date == parsed.auth_date
    IN  IF call.ENV = "dev" THEN Return(call.DEV_USERNAME)
        ELSE IF call.BOT_TOKEN = "" THEN Raise("Server configuration error")
        ELSE IF call.init_data.hash.kind # "hmac"
        THEN Raise("Missing hash in initData")
        ELSE IF Truthy(auth_date)
                  /\ (\/ ParseInt(auth_date) = NotAnInt
                      \/ Expired(CurrentTime - ParseInt(auth_date)))
        THEN Raise("Invalid auth_date")
        ELSE IF CalculatedHash(call.BOT_TOKEN, parsed) # call.init_data.hash
        THEN Raise("Invalid initData signature")
        ELSE ExtractUser(parsed)

\* The received payload differs from the signed one in at most one field.
OneFieldAltered(signed, received) ==
    Cardinality({f \in DOMAIN signed : signed[f] # received[f]}) <= 1

\* The hash field of the received payload: the platform's signature of the
\* signed payload (kept), a signature of the received fields under another
\* token (forged), absent, or blank.
HashKinds == {"kept", "forged", "absent", "blank"}

ReceivedHash(kind, signed, received) ==
    CASE kind = "kept"   -> CalculatedHash(PlatformToken, signed)
      [] kind = "forged" -> CalculatedHash("evil", received)
      [] kind = "absent" -> NoHash
      [] OTHER           -> BlankHash

AuthCalls ==
    { [ENV |-> e, BOT_TOKEN |-> t, DEV_USERNAME |-> d, signed |-> p,
       init_data |-> [fields |-> q, hash |-> ReceivedHash(h, p, q)]] :
        e \in Envs, t \in BotTokens, d \in DevUsernames, h \in HashKinds,
        p \in Payloads, q \in Payloads }

VerifyTelegramInitData ==
    /\ auth_result = NotCalled
    /\ auth_result' = verify_telegram_init_data(auth_call)
    /\ UNCHANGED <<auth_call, retryVars, trackerVars, validateVars,
                   pollVars, laterVars>>

AuthIdle ==
    /\ auth_call = "idle"
    /\ auth_result = NotCalled

AuthInputs ==
    /\ auth_call \in {c \in AuthCalls :
                         OneFieldAltered(c.signed, c.init_data.fields)}
    /\ auth_result = NotCalled

(***************************************************************************)
(* add_speaker_diarization (src/api/whisper.py:381-421)                    *)
(***************************************************************************)
\* speaker_change_threshold = 2.0 seconds; times are counted in tenths of a
\* second
SpeakerChangeThreshold == 20

\* f"Speaker {current_speaker}"
SpeakerLabel(k) == <<"Speaker", k>>

\* a segment without the key 'speaker'
NoLabel == <<>>

\* a pause test that only a gap of more than 2.1 seconds passes
IsPauseOverLongerGap(start_time, last_end_time) ==
    start_time - last_end_time > SpeakerChangeThreshold + 1

\* line 404: start_time - last_end_time > speaker_change_threshold
IsPause(start_time, last_end_time) ==
    start_time - last_end_time > SpeakerChangeThreshold

\* a counter that keeps counting up
AdvanceUnbounded(current_speaker, max_speakers) == current_speaker + 1

\* lines 406 and 414: current_speaker = (current_speaker % max_speakers) + 1
Advance(current_speaker, max_speakers) ==
    (current_speaker % max_speakers) + 1

\* line 413: i > 0 and i % 4 == 0 and len(segments) > 5, i counted from 0
VarietyChange(i, n) == i > 0 /\ i % 4 = 0 /\ n > 5

\* The silence before a segment, in tenths of a second: none, exactly the
\* threshold, just over it
Gaps == {0, SpeakerChangeThreshold, SpeakerChangeThreshold + 1}

RECURSIVE EndOf(_, _)
\* the end of segment i of the sequence whose silences are gaps; each
\* segment lasts one second
EndOf(gaps, i) == IF i = 0 THEN 0 ELSE EndOf(gaps, i - 1) + gaps[i] + 10

\* the segments of a transcription, in chronological order, as the remote
\* API returns them: start, end, text and no speaker
SegmentsOf(gaps) ==
    [i \in DOMAIN gaps |->
        [start |-> EndOf(gaps, i) - 10, end |-> EndOf(gaps, i),
         text |-> IF i % 2 = 1 THEN "odd" ELSE "even",
         speaker |-> NoLabel]]

\* [0-2], [2.1-4], [10-12]
ExampleSegments ==
    << [start |-> 0,   end |-> 20,  text |-> "odd",  speaker |-> NoLabel],
       [start |-> 21,  end |-> 40,  text |-> "even", speaker |-> NoLabel],
       [start |-> 100, end |-> 120, text |-> "odd",  speaker |-> NoLabel] >>

SegmentLists ==
    {ExampleSegments} \cup
    UNION {{SegmentsOf(gaps) : gaps \in [1..n -> Gaps]} : n \in 0..MaxSegments}

NotDiarizing ==
    [pc |-> "idle", segments |-> <<>>, original |-> <<>>,
     max_speakers |-> NoSpeakers, i |-> 0, current_speaker |-> 1,
     last_end_time |-> 0]

\* max_speakers is None (transcribe_audio passes its Optional[int] on) or an
\* int >= 1
DiarizeInputs ==
    \E segments \in SegmentLists,
       max_speakers \in {NoSpeakers} \cup (1..MaxSpeakers) :
        diar = [NotDiarizing EXCEPT !.pc = "call", !.segments = segments,
                                    !.original = segments,
                                    !.max_speakers = max_speakers]

\* lines 388-399: an empty list is returned as it is; else the locals are
\* set and the loop is entered
DiarizeEnter ==
    /\ diar.pc = "call"
    /\ diar' = IF diar.segments = <<>>
               THEN [diar EXCEPT !.pc = "done"]
               ELSE [diar EXCEPT !.pc = "loop", !.i = 0,
                                 !.current_speaker = 1, !.last_end_time = 0]
    /\ UNCHANGED outsideDiarize

\* One iteration of the loop, lines 401-414, for the segment of python index
\* diar.i.  `current_speaker % max_speakers` raises TypeError when
\* max_speakers is None: the handler of lines 419-421 returns the result as
\* far as it has been labelled.
DiarizeSegment ==
    /\ diar.pc = "loop"
    /\ diar.i < Len(diar.segments)
    /\ LET segment == diar.segments[diar.i + 1]
           pause == IsPause(segment.start, diar.last_end_time)
           variety == VarietyChange(diar.i, Len(diar.segments))
           speaker == IF pause
                      THEN Advance(diar.current_speaker, diar.max_speakers)
                      ELSE diar.current_speaker
           labelled == [diar.segments EXCEPT
                           ![diar.i + 1].speaker = SpeakerLabel(speaker)]
       IN  IF diar.max_speakers = NoSpeakers /\ pause
           THEN diar' = [diar EXCEPT !.pc = "done"]
           ELSE IF diar.max_speakers = NoSpeakers /\ variety
           THEN diar' = [diar EXCEPT !.pc = "done", !.segments = labelled,
                                     !.last_end_time = segment.end]
           ELSE diar' = [diar EXCEPT
                           !.segments = labelled,
                           !.last_end_time = segment.end,
                           !.current_speaker =
                               IF variety
                               THEN Advance(speaker, diar.max_speakers)
                               ELSE speaker,
                           !.i = @ + 1]
    /\ UNCHANGED outsideDiarize

\* lines 416-417: the loop is over
DiarizeReturn ==
    /\ diar.pc = "loop"
    /\ diar.i = Len(diar.segments)
    /\ diar' = [diar EXCEPT !.pc = "done"]
    /\ UNCHANGED outsideDiarize

(***************************************************************************)
(* analyze_transcript_with_claude (src/utils/claude_analyzer.py:136-361)   *)
(***************************************************************************)
\* A response text is a sequence of pieces: a whitespace character, the
\* 14 characters "<!DOCTYPE html", the same in lower case, or other text.
Marker == "<!DOCTYPE html"
Pieces == {" ", Marker, "<!doctype html", "<p>"}

Texts == UNION {[1..n -> Pieces] : n \in 0..MaxTextLen}

RECURSIVE LStrip(_)
LStrip(text) ==
    IF text # <<>> /\ Head(text) = " " THEN LStrip(Tail(text)) ELSE text

RECURSIVE RStrip(_)
RStrip(text) ==
    IF text # <<>> /\ text[Len(text)] = " "
    THEN RStrip(SubSeq(text, 1, Len(text) - 1))
    ELSE text

\* str.startswith("<!DOCTYPE html")
StartsWithMarker(text) == text # <<>> /\ Head(text) = Marker

\* wrap_in_html (lines 257-361): the f-string opens with "<!DOCTYPE html>"
\* and holds the content inside the body of the page
wrap_in_html(content) ==
    <<Marker, ">\n<html lang=\"en\">...<body>">> \o content
        \o <<"</body>\n</html>">>

\* line 218: html_content.strip().startswith("<!DOCTYPE html")
LooksLikeHtml(html_content) ==
    StartsWithMarker(RStrip(LStrip(html_content)))

\* lines 216-223: the text is wrapped when the check fails, and returned as
\* it was received when the check passes
HtmlDocument(html_content) ==
    IF ~LooksLikeHtml(html_content) THEN wrap_in_html(html_content)
    ELSE html_content

\* a server error only above 500
IsServerErrorAbove500(status) == status > 500

\* line 237: response.status >= 500
IsServerError(status) == status >= 500

\* What the endpoint does with the one request: it answers 200 with a body
\* whose content[0]["text"] is a text, or with a body without content; it
\* answers another status; the 180 s total timeout passes; the connection
\* fails; or the body is no JSON.
ErrorStatuses == {201, 204, 301, 400, 401, 403, 404, 429, 499, 500, 502, 503, 529}

ClaudeOutcomes ==
    [kind : {"text"}, status : {200}, text : Texts]
        \cup [kind : {"no_content", "bad_json"}, status : {200}, text : {<<>>}]
        \cup [kind : {"status"}, status : ErrorStatuses, text : {<<>>}]
        \cup [kind : {"timeout", "network"}, status : {0}, text : {<<>>}]

ClaudeRaise(message, status) ==
    [kind |-> "raise", error |-> "ClaudeAnalyzerError", message |-> message,
     status |-> status, document |-> <<>>]

\* lines 208-254, by what the endpoint does
analyze_transcript_with_claude(o) ==
    CASE o.kind = "text" ->
            [kind |-> "return", error |-> "", message |-> "", status |-> 0,
             document |-> HtmlDocument(o.text)]
      [] o.kind = "no_content" ->
            ClaudeRaise("Invalid response format from Claude API", 0)
      [] o.kind = "bad_json" -> ClaudeRaise("Analysis failed: ", 0)
      [] o.kind = "timeout" ->
            ClaudeRaise("Analysis timeout - please try with a shorter audio file or try again later", 0)
      [] o.kind = "network" -> ClaudeRaise("Network error: ", 0)
      [] OTHER ->
            IF o.status = 401 THEN ClaudeRaise("Invalid Claude API key", 0)
            ELSE IF o.status = 429
            THEN ClaudeRaise("Claude API rate limit exceeded - please try again in a few minutes", 0)
            ELSE IF IsServerError(o.status)
            THEN ClaudeRaise("Claude API server error - please try again later", 0)
            ELSE ClaudeRaise("Claude API error {response.status}: {error_text}",
                             o.status)

NotAnalyzing ==
    [pc |-> "idle", outcome |-> [kind |-> "none", status |-> 0, text |-> <<>>],
     requests |-> 0,
     result |-> [kind |-> "none", error |-> "", message |-> "", status |-> 0,
                 document |-> <<>>]]

ClaudeInputs ==
    \E o \in ClaudeOutcomes :
        claude = [NotAnalyzing EXCEPT !.pc = "call", !.outcome = o]

\* One call: the single session.post of line 210 and the handling of what
\* comes back; nothing in the function loops back to the request.
AnalyzeTranscriptWithClaude ==
    /\ claude.pc = "call"
    /\ claude' = [claude EXCEPT
                     !.pc = "done",
                     !.requests = @ + 1,
                     !.result = analyze_transcript_with_claude(claude.outcome)]
    /\ UNCHANGED outsideClaude

(***************************************************************************)
(* Bearer tokens and the allow-list: verify_access_token                   *)
(* (src/utils/jwt_helper.py:61-113), get_current_username                  *)
(* (src/server.py:114-129), /auth (src/server.py:882-909)                  *)
(***************************************************************************)
\* jwt_helper.py:10-11
JWT_ISSUER == "whisper-api"
JWT_AUDIENCE == "whisper-api-users"
\* config.JWT_SECRET_KEY; "evil" is any other key
JWT_SECRET_KEY == "secret"

\* config.ALLOWED_USERNAMES (config.py:79-85): a set of stripped, lower-cased,
\* non-empty names; empty when the variable is not set
AllowLists == SUBSET {<<"a">>, <<"a", "a">>}

\* A token string: empty, blank, no JWT at all, or a JWT with the key that
\* signed it, whether its exp has passed, and its iss, aud, sub and type
\* claims.  A sub of <<>> is a claim that is absent or empty, a type of ""
\* a claim that is absent.
Tokens ==
    [raw : {"jwt"}, key : {JWT_SECRET_KEY, "evil"}, expired : BOOLEAN,
     iss : {JWT_ISSUER, "other"}, aud : {JWT_AUDIENCE, "other"},
     sub : {<<>>, <<"a">>, <<"b">>, <<"A">>},
     type : {"", "access", "refresh"}]
    \cup [raw : {"", " ", "garbage"}, key : {"evil"}, expired : {FALSE},
          iss : {"other"}, aud : {"other"}, sub : {<<>>}, type : {""}]

NoToken ==
    [raw |-> "none", key |-> "evil", expired |-> FALSE, iss |-> "other",
     aud |-> "other", sub |-> <<>>, type |-> ""]

\* create_access_token (jwt_helper.py:14-58), for a username that is not
\* blank
create_access_token(username) ==
    [raw |-> "jwt", key |-> JWT_SECRET_KEY, expired |-> FALSE,
     iss |-> JWT_ISSUER, aud |-> JWT_AUDIENCE, sub |-> Strip(username),
     type |-> "access"]

TokenRaise(error, message) ==
    [kind |-> "raise", error |-> error, message |-> message, username |-> <<>>]

\* An exception other than ExpiredSignatureError that leaves the `try` of
\* lines 83-103 meets `except jwt.InvalidTokenError` (line 108).  jose.jwt
\* defines no such name in the releases that lack it: looking it up raises
\* AttributeError, which leaves the function.  Where the name is defined,
\* the exception is a JWTError and is handled by line 108 or by the
\* `except Exception` of line 111.
NotExpiredFailure(InvalidTokenErrorDefined, message) ==
    IF InvalidTokenErrorDefined
    THEN TokenRaise("JWTError", message)
    ELSE TokenRaise("AttributeError",
                    "module 'jose.jwt' has no attribute 'InvalidTokenError'")

\* verify_access_token (lines 61-113).  jwt.decode checks the signature,
\* then exp, then aud, then iss.
verify_access_token(token, InvalidTokenErrorDefined) ==
    IF token.raw = ""
    THEN TokenRaise("ValueError", "Token must be a non-empty string")
    ELSE IF token.raw = " "
    THEN TokenRaise("ValueError", "Token cannot be empty")
    ELSE IF token.raw # "jwt" \/ token.key # JWT_SECRET_KEY
    THEN NotExpiredFailure(InvalidTokenErrorDefined, "Invalid token: ")
    ELSE IF token.expired THEN TokenRaise("JWTError", "Token expired")
    ELSE IF token.aud # JWT_AUDIENCE \/ token.iss # JWT_ISSUER
    THEN NotExpiredFailure(InvalidTokenErrorDefined, "Invalid token: ")
    ELSE IF token.sub = <<>>
    THEN NotExpiredFailure(InvalidTokenErrorDefined,
                           "Token verification failed: ")
    ELSE IF token.type # "" /\ token.type # "access"
    THEN NotExpiredFailure(InvalidTokenErrorDefined,
                           "Token verification failed: ")
    ELSE [kind |-> "return", error |-> "", message |-> "",
          username |-> token.sub]

\* What a handler answers: an HTTPException (code, detail), or its return
\* value (username and, from /auth, the access token).
HttpError(code, detail) ==
    [kind |-> "http_error", code |-> code, detail |-> detail,
     username |-> <<>>, access_token |-> NoToken]

Authorized(username, access_token) ==
    [kind |-> "return", code |-> 200, detail |-> "", username |-> username,
     access_token |-> access_token]

\* an allow-list that lets everyone through when it is empty
AllowedOrListEmpty(username, ALLOWED_USERNAMES) ==
    ALLOWED_USERNAMES = {} \/ username \in ALLOWED_USERNAMES

\* server.py:125 and 897: the negation of `username not in ALLOWED_USERNAMES`
Allowed(username, ALLOWED_USERNAMES) == username \in ALLOWED_USERNAMES

\* the detail of the 401 taken from the exception
TokenErrorDetailOfException(exception) == exception.message

\* server.py:120-122: every exception of verify_access_token is answered
\* with the same detail
TokenErrorDetail(exception) == "Invalid or expired token"

\* get_current_username (server.py:114-129)
get_current_username(token, InvalidTokenErrorDefined, ALLOWED_USERNAMES) ==
    LET verified == verify_access_token(token, InvalidTokenErrorDefined)
    IN  IF verified.kind = "raise"
        THEN HttpError(401, TokenErrorDetail(verified))
        ELSE IF ~Allowed(verified.username, ALLOWED_USERNAMES)
        THEN HttpError(403, "Access denied")
        ELSE Authorized(verified.username, NoToken)

\* /auth (server.py:882-909).  In dev mode verify_telegram_init_data returns
\* os.getenv("DEV_USERNAME"): when the variable is not set that is None, and
\* None.lower() raises inside the `try`.
auth(call, dev_username_set, ALLOWED_USERNAMES) ==
    LET user_data == verify_telegram_init_data(call)
        username  == Lower(user_data.username)
    IN  IF user_data.kind = "raise" \/ (call.ENV = "dev" /\ ~dev_username_set)
        THEN HttpError(403, "Invalid Telegram data")
        ELSE IF ~Allowed(username, ALLOWED_USERNAMES)
        THEN HttpError(403, "Access denied")
        ELSE Authorized(username, create_access_token(username))

\* The configuration and the initData of an /auth request; the payload is
\* received as the platform signed it
LoginCalls ==
    { [ENV |-> e, BOT_TOKEN |-> t, DEV_USERNAME |-> d, signed |-> p,
       init_data |-> [fields |-> p, hash |-> ReceivedHash(h, p, p)]] :
        e \in Envs, t \in {"", PlatformToken}, d \in {<<"A">>, <<"b">>},
        h \in HashKinds, p \in {q \in Payloads : q.query_id = "q1"} }

\* The configuration of a request that carries a bearer token (config.ENV)
ConfigOnly(e) ==
    [ENV |-> e, BOT_TOKEN |-> PlatformToken, DEV_USERNAME |-> <<"A">>,
     signed |-> CHOOSE p \in Payloads : TRUE,
     init_data |-> [fields |-> CHOOSE p \in Payloads : TRUE, hash |-> NoHash]]

LoginRequest(kind, call, dev_username_set, token, defined, allowed) ==
    [kind |-> kind, call |-> call, dev_username_set |-> dev_username_set,
     token |-> token, InvalidTokenErrorDefined |-> defined,
     ALLOWED_USERNAMES |-> allowed]

LoginRequests ==
    { LoginRequest("auth", call, set, NoToken, FALSE, allowed) :
        call \in LoginCalls, set \in BOOLEAN, allowed \in AllowLists }
    \cup
    { LoginRequest("bearer", ConfigOnly(e), TRUE, token, defined, allowed) :
        e \in Envs, token \in Tokens, defined \in BOOLEAN,
        allowed \in AllowLists }

NotLoggingIn ==
    [pc |-> "idle",
     request |-> LoginRequest("none", ConfigOnly("prod"), TRUE, NoToken,
                              FALSE, {}),
     result |-> [kind |-> "none", code |-> 0, detail |-> "",
                 username |-> <<>>, access_token |-> NoToken]]

LoginInputs ==
    \E request \in LoginRequests :
        login = [NotLoggingIn EXCEPT !.pc = "call", !.request = request]

\* One request to /auth
Auth ==
    /\ login.pc = "call"
    /\ login.request.kind = "auth"
    /\ login' = [login EXCEPT
                    !.pc = "done",
                    !.result = auth(login.request.call,
                                    login.request.dev_username_set,
                                    login.request.ALLOWED_USERNAMES)]
    /\ UNCHANGED outsideLogin

\* One run of the dependency get_current_username on the token that
\* HTTPBearer has taken from the Authorization header
GetCurrentUsername ==
    /\ login.pc = "call"
    /\ login.request.kind = "bearer"
    /\ login' = [login EXCEPT
                    !.pc = "done",
                    !.result = get_current_username(
                                   login.request.token,
                                   login.request.InvalidTokenErrorDefined,
                                   login.request.ALLOWED_USERNAMES)]
    /\ UNCHANGED outsideLogin

\* none of the later components has been called
LaterIdle ==
    diar = NotDiarizing /\ claude = NotAnalyzing /\ login = NotLoggingIn

Init ==
    /\ InitRetry /\ InitTracker /\ ValidateIdle /\ AuthIdle /\ PollIdle
    /\ LaterIdle

\* validate_file_content applied to every input within the bounds
InitValidate ==
    /\ InitRetry /\ InitTracker /\ ValidateInputs /\ AuthIdle /\ PollIdle
    /\ LaterIdle

SpecValidate == InitValidate /\ [][NextValidate]_vars

NextAuth == VerifyTelegramInitData

\* verify_telegram_init_data applied to every call within the bounds
InitAuth ==
    /\ InitRetry /\ InitTracker /\ ValidateIdle /\ AuthInputs /\ PollIdle
    /\ LaterIdle

SpecAuth == InitAuth /\ [][NextAuth]_vars

NextDiarize == DiarizeEnter \/ DiarizeSegment \/ DiarizeReturn

\* add_speaker_diarization applied to every input within the bounds
InitDiarize ==
    /\ InitRetry /\ InitTracker /\ ValidateIdle /\ AuthIdle /\ PollIdle
    /\ DiarizeInputs /\ claude = NotAnalyzing /\ login = NotLoggingIn

SpecDiarize == InitDiarize /\ [][NextDiarize]_vars

NextAnalyze == AnalyzeTranscriptWithClaude

\* analyze_transcript_with_claude against everything the endpoint can do
InitAnalyze ==
    /\ InitRetry /\ InitTracker /\ ValidateIdle /\ AuthIdle /\ PollIdle
    /\ diar = NotDiarizing /\ ClaudeInputs /\ login = NotLoggingIn

SpecAnalyze == InitAnalyze /\ [][NextAnalyze]_vars

NextLogin == Auth \/ GetCurrentUsername

\* /auth and get_current_username applied to every request within the bounds
InitLogin ==
    /\ InitRetry /\ InitTracker /\ ValidateIdle /\ AuthIdle /\ PollIdle
    /\ diar = NotDiarizing /\ claude = NotAnalyzing /\ LoginInputs

SpecLogin == InitLogin /\ [][NextLogin]_vars

NextRetry == Begin \/ Attempt \/ Exhausted

\* one call of transcribe_audio
SpecRetry == Init /\ [][NextRetry]_vars

Next ==
    \/ AnalyzeAsync
    \/ \E t \in DOMAIN tasks : WorkerBegin(t)
    \/ \E t \in DOMAIN tasks : WorkerValidate(t)
    \/ \E t \in DOMAIN tasks : WorkerTranscribe(t)
    \/ \E t \in DOMAIN tasks : WorkerAnalyze(t)

\* the task tracker: analyze_async requests and their background workers
Spec == Init /\ [][Next]_vars

(***************************************************************************)
(* The queries get_task_status and get_task_result                         *)
(* (src/server.py:789-850)                                                 *)
(***************************************************************************)
\* a select by id alone
TaskFoundById(table, task_id, username) == task_id \in DOMAIN table

\* select(AnalysisTask).where(id == task_id).where(username == username)
\* .first() is not None (lines 797-803, 831-837)
TaskFound(table, task_id, username) ==
    /\ task_id \in DOMAIN table
    /\ table[task_id].username = username

NoTask == NewTask(None)

\* HTTPException(status_code=404, detail="Task not found")
TaskNotFound(handler, task_id, username) ==
    Response(handler, task_id, username, 404, <<"Task not found">>, {},
             NoTask, None)

\* get_task_status (lines 789-820)
get_task_status(table, task_id, username) ==
    IF ~TaskFound(table, task_id, username)
    THEN TaskNotFound("get_task_status", task_id, username)
    ELSE LET task == table[task_id]
         IN  Response("get_task_status", task_id, username, 200, <<>>,
                 {"task_id", "filename", "status", "progress", "created_at"}
                   \cup (IF Truthy(task.error_message) THEN {"error"} ELSE {})
                   \cup (IF task.status = COMPLETED THEN {"completed_at"}
                         ELSE {}),
                 task, None)

\* no check of the task before the document is returned
ResultErrorNone(task) == 0

\* lines 842-846: the status code of the HTTPException get_task_result
\* raises for a task it has found, 0 when it raises none
ResultError(task) ==
    IF task.status # COMPLETED THEN 400
    ELSE IF ~Truthy(task.analysis_html) THEN 404
    ELSE 0

\* get_task_result (lines 823-850)
get_task_result(table, task_id, username) ==
    IF ~TaskFound(table, task_id, username)
    THEN TaskNotFound("get_task_result", task_id, username)
    ELSE LET task == table[task_id]
         IN  CASE ResultError(task) = 400
                    -> Response("get_task_result", task_id, username, 400,
                                <<"Task not completed. Status: ", task.status>>,
                                {}, task, None)
               [] ResultError(task) = 404
                    -> Response("get_task_result", task_id, username, 404,
                                <<"Analysis result not found">>, {}, task, None)
               [] OTHER
                    -> Response("get_task_result", task_id, username, 200,
                                <<>>, {}, task, task.analysis_html)

\* a status query that stamps the row it has read
GetTaskStatusStamping ==
    /\ \E task_id \in 1..(Len(tasks) + 1), username \in Users :
          /\ resp' = get_task_status(tasks, task_id, username)
          /\ tasks' = IF TaskFound(tasks, task_id, username)
                      THEN [tasks EXCEPT ![task_id].completed_at = "polled"]
                      ELSE tasks
    /\ UNCHANGED <<wpc, files, status_log, steps, writers>>
    /\ UNCHANGED <<retryVars, validateVars, authVars, observed, laterVars>>

\* One request to /task/{task_id}, for an id in the table or the next one,
\* by a principal that passed get_current_username. The handler only reads:
\* its session runs one select and is closed without a commit.
GetTaskStatus ==
    /\ \E task_id \in 1..(Len(tasks) + 1), username \in Users :
          resp' = get_task_status(tasks, task_id, username)
    /\ UNCHANGED <<trackerVars, retryVars, validateVars, authVars, observed,
                   laterVars>>

\* One request to /task/{task_id}/result.
GetTaskResult ==
    /\ \E task_id \in 1..(Len(tasks) + 1), username \in Users :
          resp' = get_task_result(tasks, task_id, username)
    /\ UNCHANGED <<trackerVars, retryVars, validateVars, authVars, observed,
                   laterVars>>

\* analyze_async while fewer than MaxPolledTasks tasks exist
AnalyzeAsyncPolled ==
    /\ Len(tasks) < MaxPolledTasks
    /\ AnalyzeAsync

NextPoll ==
    \/ AnalyzeAsyncPolled
    \/ \E t \in DOMAIN tasks : WorkerBegin(t)
    \/ \E t \in DOMAIN tasks : WorkerValidate(t)
    \/ \E t \in DOMAIN tasks : WorkerTranscribe(t)
    \/ \E t \in DOMAIN tasks : WorkerAnalyze(t)
    \/ GetTaskStatus
    \/ GetTaskResult

\* the task tracker with queries arriving at any moment
SpecPoll == Init /\ [][NextPoll]_vars

\* A poller of one task: a get_task_status request that is answered 200,
\* for the task it polls (the first one it is answered for); it keeps the
\* last two different statuses it has been answered.
PollTaskStatus ==
    /\ \E task_id \in DOMAIN tasks, username \in Users :
          LET r == get_task_status(tasks, task_id, username)
          IN  /\ r.code = 200
              /\ observed.task_id \in {0, task_id}
              /\ observed' =
                    IF r.status = observed.last THEN observed
                    ELSE [task_id |-> task_id, prev |-> observed.last,
                          last |-> r.status]
    /\ UNCHANGED <<trackerVars, retryVars, validateVars, authVars, resp,
                   laterVars>>

\* The tasks of the polled runs are all created by one principal; both
\* principals poll.
Creators == {"alice"}

AnalyzeAsyncObserved == AnalyzeAsyncBy(Creators)

NextObserve ==
    \/ AnalyzeAsyncObserved
    \/ \E t \in DOMAIN tasks : WorkerBegin(t)
    \/ \E t \in DOMAIN tasks : WorkerValidate(t)
    \/ \E t \in DOMAIN tasks : WorkerTranscribe(t)
    \/ \E t \in DOMAIN tasks : WorkerAnalyze(t)
    \/ PollTaskStatus

\* the task tracker with a poller of one task
SpecObserve == Init /\ [][NextObserve]_vars

(***************************************************************************)
(* Properties of transcribe_audio, checked under SpecRetry                 *)
(***************************************************************************)
Retried5xxOrNetwork(o) ==
    \/ o.kind \in {"timeout", "connection"}
    \/ o.kind = "response" /\ 500 <= o.status /\ o.status <= 599

\* C1: whatever the remote answers, one call of transcribe_audio makes at
\* most MAX_RETRIES (3) HTTP attempts.
C1_AtMostMaxRetriesAttempts == Len(http_log) <= MAX_RETRIES

C1_Witness ==
    /\ tpc = "done"
    /\ Len(http_log) = MAX_RETRIES
    /\ \A k \in 1..Len(http_log) : Retried5xxOrNetwork(http_log[k])

\* C2: an attempt is followed by another attempt only if it ended in a
\* connection failure, a timeout or a 5xx response.
C2_RetryOnlyNetworkOr5xx ==
    \A k \in 1..Len(http_log) :
        k < Len(http_log) => Retried5xxOrNetwork(http_log[k])

\* C3: a 4xx response on attempt k ends the call on that attempt with a
\* WhisperAPIError: no later attempt, nothing returned, and no backoff sleep
\* beyond the k-1 sleeps that preceded attempt k; a 4xx on the first attempt
\* therefore leaves exactly 1 attempt and no sleep.
C3_ClientErrorFailsAtOnce ==
    \A k \in 1..Len(http_log) :
        (http_log[k].kind = "response" /\ http_log[k].status \in 400..499)
            => /\ k = Len(http_log)
               /\ tpc = "done"
               /\ Len(raised) = 1
               /\ raised[1].kind = "WhisperAPIError"
               /\ raised[1].attempt = k
               /\ returned = NoResult
               /\ Len(sleeps) = k - 1

C3_Witness ==
    /\ Len(http_log) = 1
    /\ http_log[1] = [kind |-> "response", status |-> 404]
    /\ tpc = "done"
    /\ sleeps = <<>>

\* C4: the k-th backoff sleep lasts 2^(k-1), one sleep follows each retried
\* attempt except the last possible one, and retryable failures on attempts
\* 1 and 2 followed by a 200 on attempt 3 return the result after exactly 3
\* attempts and the sleeps 1, 2.
C4_ExponentialBackoff ==
    /\ Len(sleeps) = (IF attempt < MAX_RETRIES - 1 THEN attempt ELSE MAX_RETRIES - 1)
    /\ \A k \in 1..Len(sleeps) : sleeps[k] = 2 ^ (k - 1)
    /\ (/\ Len(http_log) = 3
        /\ IsRetried(http_log[1])
        /\ IsRetried(http_log[2])
        /\ http_log[3] = [kind |-> "response", status |-> 200])
         => /\ tpc = "done"
            /\ returned.kind = "result"
            /\ returned.attempt = 3
            /\ raised = <<>>
            /\ sleeps = <<1, 2>>

C4_Witness ==
    /\ http_log = << [kind |-> "response", status |-> 500],
                     [kind |-> "response", status |-> 500],
                     [kind |-> "response", status |-> 200] >>
    /\ returned.kind = "result"

\* C5: when all 3 attempts end in retried failures, the call raises exactly
\* one WhisperAPIError, and it carries the failure of the third attempt.
C5_ExhaustionRaisesLastFailure ==
    (/\ tpc = "done"
     /\ Len(http_log) = MAX_RETRIES
     /\ \A k \in 1..MAX_RETRIES : IsRetried(http_log[k]))
      => /\ Len(raised) = 1
         /\ raised[1].kind = "WhisperAPIError"
         /\ raised[1].cause = [attempt |-> MAX_RETRIES,
                               kind |-> http_log[MAX_RETRIES].kind,
                               status |-> http_log[MAX_RETRIES].status]
         /\ returned = NoResult

C5_Witness ==
    /\ tpc = "done"
    /\ Len(http_log) = MAX_RETRIES
    /\ http_log[1].kind = "timeout"
    /\ http_log[2].kind = "connection"
    /\ http_log[3] = [kind |-> "response", status |-> 503]
    /\ Len(raised) = 1

(***************************************************************************)
(* Properties of the task tracker, checked under Spec                      *)
(***************************************************************************)
Terminal == {COMPLETED, FAILED}

NoRepeat(log) == \A i, j \in 1..Len(log) : log[i] = log[j] => i = j

C7_FailKeepsProgress ==
    [][\A t \in DOMAIN tasks :
          (tasks[t].status \notin Terminal /\ tasks'[t].status = FAILED)
             => /\ tasks'[t].progress = tasks[t].progress
                /\ tasks'[t].error_message # None]_vars

\* C8: a task starts in PENDING with progress 0, no status is revisited, and
\* a worker whose validation, transcription and analysis all succeeded has
\* taken the task through PENDING, TRANSCRIBING, ANALYZING, COMPLETED in
\* that order and left it with progress 100.
C8_HappyPathOrder ==
    \A t \in DOMAIN tasks :
        /\ status_log[t][1] = PENDING
        /\ tasks[t].status = PENDING => tasks[t].progress = 0
        /\ NoRepeat(status_log[t])
        /\ (wpc[t] = "done" /\ steps[t] = <<"ok", "ok", "ok">>)
             => /\ status_log[t] = <<PENDING, TRANSCRIBING, ANALYZING, COMPLETED>>
                /\ tasks[t].status = COMPLETED
                /\ tasks[t].progress = 100

\* C9: progress always lies in 0..100, and a step that leaves a task in a
\* status other than FAILED never lowers its progress.
C9_ProgressMonotone ==
    /\ [](\A t \in DOMAIN tasks : tasks[t].progress \in 0..100)
    /\ [][\A t \in DOMAIN tasks :
             tasks'[t].status # FAILED
                => tasks'[t].progress >= tasks[t].progress]_vars

C9_Witness ==
    \E t \in DOMAIN tasks :
        /\ tasks[t].progress = 100
        /\ status_log[t] = <<PENDING, TRANSCRIBING, ANALYZING, COMPLETED>>

\* C10: completed_at is set exactly when the status is COMPLETED.
C10_CompletedAtIffCompleted ==
    \A t \in DOMAIN tasks :
        (tasks[t].completed_at # None) <=> (tasks[t].status = COMPLETED)

C10_Witness ==
    /\ \E t \in DOMAIN tasks :
          tasks[t].status = COMPLETED /\ tasks[t].completed_at = "utcnow"
    /\ \E t \in DOMAIN tasks :
          tasks[t].status = FAILED /\ tasks[t].completed_at = None

\* C13: a task whose worker has started ends in COMPLETED or FAILED: once
\* the worker has returned, the task's status is terminal.
C13_WorkerEndsTerminal ==
    \A t \in DOMAIN tasks :
        wpc[t] = "done" => tasks[t].status \in Terminal

\* C15: a task's row has one writer: a task whose start failed is written
\* by the entry point only and has no worker, every other task is written
\* by its one worker only.
C15_SingleWriter ==
    /\ DOMAIN wpc = DOMAIN tasks
    /\ \A t \in DOMAIN tasks :
          /\ writers[t] \in {{}, {"entry"}, {"worker"}}
          /\ "entry" \in writers[t] <=> wpc[t] = "none"

C15_Witness ==
    /\ Len(tasks) = 2
    /\ writers[1] = {"entry"} /\ tasks[1].status = FAILED
    /\ writers[2] = {"worker"} /\ wpc[2] = "analyze"

\* C16: every temporary file is gone when the code that made it has left:
\* after transcribe_audio has returned or raised, after the worker has
\* returned, and after analyze_async has failed to start the worker.
C16_TempFilesDeleted ==
    /\ tpc = "done" => ~temp_file
    /\ \A t \in DOMAIN tasks : wpc[t] \in {"none", "done"} => ~files[t]

\* C18: when the file validation, the parameter validation or the
\* configuration check fails, transcribe_audio has made no HTTP attempt,
\* created no temporary file and slept no backoff.
C18_ChecksPrecedeNetwork ==
    (/\ raised # <<>>
     /\ raised[1].attempt = 0
     /\ raised[1].cause = NoException
     /\ raised[1].kind \in {PreCheckError(c) : c \in PreChecks \ {"ok"}})
        => /\ http_log = <<>>
           /\ sleeps = <<>>
           /\ ~temp_file

C18_Witness ==
    /\ tpc = "done"
    /\ raised # <<>>
    /\ raised[1].attempt = 0
    /\ raised[1].cause = NoException
    /\ raised[1].kind = "WhisperAPIError"
    /\ http_log = <<>>

\* C17: validate_file_content accepts exactly the inputs with non-empty
\* content of at most MAX_FILE_SIZE bytes whose lower-cased extension is in
\* the allow-list, and otherwise raises with the reason of the first
\* failing check in the order empty, size, extension.
C17_ValidateFileContent ==
    validation # "idle" =>
        LET empty   == file_size = 0
            large   == file_size > 100 * 1024 * 1024
            allowed == Lower(PathSuffix(filename)) \in SUPPORTED_AUDIO_TYPES
        IN  /\ validation = "passed" <=> (~empty /\ ~large /\ allowed)
            /\ validation = "File content is empty" <=> empty
            /\ validation = "File too large" <=> (~empty /\ large)
            /\ validation = "Unsupported file type"
                  <=> (~empty /\ ~large /\ ~allowed)

C17_Witness ==
    /\ validation = "passed"
    /\ file_size = MAX_FILE_SIZE
    /\ filename = <<"a", ".", "A", "a", "c">>

\* The received payload has an altered field and the signed payload's hash.
Tampered ==
    /\ auth_call.init_data.fields # auth_call.signed
    /\ auth_call.init_data.hash
          = CalculatedHash(PlatformToken, auth_call.signed)

\* The received payload is signed with the secret derived from BOT_TOKEN,
\* is at most MAX_AUTH_AGE old, and its user has an integer id and a
\* username.
SignedFreshWithUser ==
    LET fields == auth_call.init_data.fields
        user   == json_loads(fields.user)
    IN  /\ auth_call.init_data.hash
              = CalculatedHash(auth_call.BOT_TOKEN, fields)
        /\ ParseInt(fields.auth_date) # NotAnInt
        /\ CurrentTime - ParseInt(fields.auth_date) <= 24 * 60 * 60
        /\ user.shape = "dict" /\ user.id = "int"
        /\ Strip(user.username) # <<>>

\* C19 as stated: a payload with an altered field and the kept hash is
\* rejected; a correctly signed, fresh payload with an integer user id and
\* a username is accepted with that username lower-cased.
C19_TamperedRejectedSignedAccepted ==
    auth_result.kind # "idle" =>
        /\ Tampered => auth_result.kind = "raise"
        /\ SignedFreshWithUser
             => /\ auth_result.kind = "return"
                /\ auth_result.username
                      = Lower(json_loads(auth_call.init_data.fields.user)
                                .username)

\* C19 amended: when ENV is not "dev", a payload in which one field's value
\* was altered and the hash kept is rejected; when moreover BOT_TOKEN is
\* set, a payload signed with the secret derived from it, at most
\* MAX_AUTH_AGE old, whose user has an integer id and a username that is
\* not blank, is accepted with that username stripped of surrounding
\* whitespace and lower-cased.
C19_OutsideDevTamperedRejectedSignedAccepted ==
    (auth_result.kind # "idle" /\ auth_call.ENV # "dev") =>
        /\ Tampered => auth_result.kind = "raise"
        /\ (SignedFreshWithUser /\ auth_call.BOT_TOKEN # "")
             => /\ auth_result.kind = "return"
                /\ auth_result.username
                      = Lower(Strip(json_loads(
                            auth_call.init_data.fields.user).username))

C19_WitnessTampered ==
    /\ auth_call.ENV = "prod"
    /\ auth_call.init_data.fields.user # auth_call.signed.user
    /\ json_loads(auth_call.init_data.fields.user).username = <<" ", "A", " ">>
    /\ Tampered
    /\ auth_result.kind = "raise"
    /\ auth_result.message = "Invalid initData signature"

C19_Witness ==
    /\ auth_call.ENV = "prod"
    /\ SignedFreshWithUser
    /\ auth_call.init_data.fields.auth_date = "13600"
    /\ auth_result = Return(<<"a">>)

\* the auth_date of the received payload is more than MAX_AUTH_AGE older
\* than the current time
TooOld ==
    /\ ParseInt(auth_call.init_data.fields.auth_date) # NotAnInt
    /\ CurrentTime - ParseInt(auth_call.init_data.fields.auth_date)
          > 24 * 60 * 60

\* C20 as stated: a payload whose auth_date is more than MAX_AUTH_AGE older
\* than the current time is rejected, whatever its signature.
C20_ExpiredRejected ==
    (auth_result.kind # "idle" /\ TooOld) => auth_result.kind = "raise"

\* C20 amended: when ENV is not "dev", a payload whose auth_date is more
\* than MAX_AUTH_AGE older than the current time is rejected, whatever its
\* signature.
C20_OutsideDevExpiredRejected ==
    (auth_result.kind # "idle" /\ auth_call.ENV # "dev" /\ TooOld)
        => auth_result.kind = "raise"

C20_Witness ==
    /\ auth_call.ENV = "prod"
    /\ auth_call.BOT_TOKEN = PlatformToken
    /\ auth_call.init_data.fields = auth_call.signed
    /\ auth_call.init_data.hash
          = CalculatedHash(auth_call.BOT_TOKEN, auth_call.signed)
    /\ auth_call.signed.auth_date = "13599"
    /\ auth_result = Raise("Invalid auth_date")

\* C11: a query by a principal other than the task's creator is answered
\* 404 "Task not found", with none of the task's status, progress, error or
\* result, whatever state the task is in.
C11_OnlyCreatorReads ==
    (/\ resp.handler \in {"get_task_status", "get_task_result"}
     /\ resp.task_id \in DOMAIN tasks
     /\ resp.username # tasks[resp.task_id].username)
        => /\ resp.code = 404
           /\ resp.detail = <<"Task not found">>
           /\ resp.keys = {}
           /\ resp.status = None
           /\ resp.progress = NoProgress
           /\ resp.error = None
           /\ resp.document = None

C11_Witness ==
    /\ resp.handler = "get_task_result"
    /\ resp.task_id \in DOMAIN tasks
    /\ tasks[resp.task_id].status = COMPLETED
    /\ tasks[resp.task_id].username = "alice"
    /\ resp.username = "bob"
    /\ resp.code = 404

\* C12: get_task_result returns a document only for a task whose status is
\* COMPLETED; for a task in any other status it answers an error and no
\* document, at whatever moment of the worker's run the query arrives.
C12_ResultOnlyWhenCompleted ==
    (resp.handler = "get_task_result" /\ resp.task_id \in DOMAIN tasks)
        => /\ resp.document # None
                => (tasks[resp.task_id].status = COMPLETED /\ resp.code = 200)
           /\ tasks[resp.task_id].status # COMPLETED
                => (resp.code \in 400..599 /\ resp.document = None)

C12_Witness ==
    /\ resp.handler = "get_task_result"
    /\ resp.task_id \in DOMAIN tasks
    /\ resp.username = tasks[resp.task_id].username
    /\ tasks[resp.task_id].status = ANALYZING
    /\ wpc[resp.task_id] = "analyze"
    /\ resp.code = 400

C12_WitnessDocument ==
    /\ resp.handler = "get_task_result"
    /\ resp.code = 200
    /\ resp.document = "<!DOCTYPE html>"

Rank(status) ==
    CASE status = PENDING      -> 1
      [] status = TRANSCRIBING -> 2
      [] status = ANALYZING    -> 3
      [] OTHER                 -> 4

\* C14: of two statuses a poller is answered for its task one after the
\* other, the earlier one is not terminal, and the later one is FAILED or
\* comes later in the order PENDING, TRANSCRIBING, ANALYZING, COMPLETED.
C14_ObservedInOrder ==
    observed.prev # None =>
        /\ observed.prev \notin Terminal
        /\ observed.last = FAILED \/ Rank(observed.prev) < Rank(observed.last)

C14_Witness ==
    /\ Len(tasks) = 2
    /\ observed.task_id = 1
    /\ observed.prev = ANALYZING
    /\ observed.last = COMPLETED
    /\ wpc[2] = "transcribe"
    /\ tasks[2].status = TRANSCRIBING

\* C30: a task whose transcription returns an empty text is never ANALYZING,
\* has no analysis step and no transcript stored, and its row goes from
\* TRANSCRIBING to FAILED.
C30_EmptyTranscriptFails ==
    \A t \in DOMAIN tasks :
        (Len(steps[t]) >= 2 /\ steps[t][2] = "empty")
            => /\ steps[t] = <<"ok", "empty">>
               /\ wpc[t] = "done"
               /\ \A i \in DOMAIN status_log[t] : status_log[t][i] # ANALYZING
               /\ tasks[t].transcript = None
               /\ tasks[t].status = FAILED
               /\ status_log[t] = <<PENDING, TRANSCRIBING, FAILED>>

\* the part of C30 that no store failure touches: no ANALYZING, no analysis
\* step, no transcript
C30_EmptyTranscriptNeverAnalyzed ==
    \A t \in DOMAIN tasks :
        (Len(steps[t]) >= 2 /\ steps[t][2] = "empty")
            => /\ steps[t] = <<"ok", "empty">>
               /\ wpc[t] = "done"
               /\ \A i \in DOMAIN status_log[t] : status_log[t][i] # ANALYZING
               /\ tasks[t].transcript = None
               /\ tasks[t].status # ANALYZING

\* the request resp answers is a query of a COMPLETED task by its creator
CompletedOwnerQuery(r, table) ==
    /\ r.handler \in {"get_task_status", "get_task_result"}
    /\ r.task_id \in DOMAIN table
    /\ table[r.task_id].status = COMPLETED
    /\ table[r.task_id].username = r.username

\* C25: a query of a COMPLETED task by its creator changes no field of any
\* task; a COMPLETED row is never changed by any step; and the same query
\* repeated is given the same answer.
C25_CompletedQueryReadOnly ==
    [][/\ CompletedOwnerQuery(resp', tasks) => tasks' = tasks
       /\ \A t \in DOMAIN tasks :
             tasks[t].status = COMPLETED => tasks'[t] = tasks[t]
       /\ (/\ CompletedOwnerQuery(resp, tasks)
           /\ CompletedOwnerQuery(resp', tasks)
           /\ resp'.handler = resp.handler
           /\ resp'.task_id = resp.task_id
           /\ resp'.username = resp.username) => resp' = resp]_vars

C25_Witness ==
    /\ CompletedOwnerQuery(resp, tasks)
    /\ resp.handler = "get_task_status"
    /\ resp.code = 200
    /\ "completed_at" \in resp.keys
    /\ resp.status = COMPLETED
    /\ resp.progress = 100

\* C28: a call of transcribe_audio that returns on a 200 response has passed
\* the result through add_speaker_diarization exactly when speaker_labels is
\* true and min_speakers is greater than 1; a call that has not returned has
\* passed nothing through it.
C28_DiarizedIffLabelsAndSeveralSpeakers ==
    /\ returned.kind = "result"
          => (returned.diarized <=>
                 (/\ params.speaker_labels
                  /\ params.min_speakers \in {2, 3}))
    /\ returned.kind # "result" => ~returned.diarized

C28_Witness ==
    /\ returned.kind = "result"
    /\ params.speaker_labels
    /\ params.min_speakers = 1
    /\ ~returned.diarized

C28_WitnessDiarized ==
    /\ returned.kind = "result"
    /\ params.speaker_labels
    /\ params.min_speakers = 2
    /\ returned.diarized

\* the segments add_speaker_diarization has labelled so far
Labelled == {j \in DOMAIN diar.segments : diar.segments[j].speaker # NoLabel}

\* C29: for an integer max_speakers >= 1, add_speaker_diarization keeps the
\* number and order of the segments and the start, end and text of each;
\* its counter stays in 1..max_speakers; every label is "Speaker k" with
\* 1 <= k <= max_speakers, the segments before the loop's position are
\* labelled, and at the return every segment is.
C29_LabelsInRangeSegmentsKept ==
    (diar.pc # "idle" /\ diar.max_speakers >= 1)
        => /\ Len(diar.segments) = Len(diar.original)
           /\ \A j \in DOMAIN diar.segments :
                 /\ diar.segments[j].start = diar.original[j].start
                 /\ diar.segments[j].end = diar.original[j].end
                 /\ diar.segments[j].text = diar.original[j].text
           /\ diar.current_speaker \in 1..diar.max_speakers
           /\ \A j \in Labelled :
                 \E k \in 1..diar.max_speakers :
                     diar.segments[j].speaker = <<"Speaker", k>>
           /\ diar.pc = "loop" => Labelled = 1..diar.i
           /\ diar.pc = "done" => Labelled = DOMAIN diar.segments

C29_Witness ==
    /\ diar.pc = "done"
    /\ diar.max_speakers = 2
    /\ Len(diar.segments) = 6
    /\ diar.segments[1].speaker = <<"Speaker", 2>>
    /\ diar.segments[2].speaker = <<"Speaker", 2>>
    /\ diar.segments[3].speaker = <<"Speaker", 1>>
    /\ diar.segments[6].speaker = <<"Speaker", 1>>

\* C27 as stated: for max_speakers >= 2, a labelled segment whose start
\* exceeds the end of the segment before it by more than 2.0 seconds has a
\* label different from that segment's.
C27_PauseChangesLabel ==
    (diar.pc # "idle" /\ diar.max_speakers >= 2)
        => \A j \in Labelled :
              (j > 1 /\ diar.segments[j].start - diar.segments[j - 1].end > 20)
                  => diar.segments[j].speaker # diar.segments[j - 1].speaker

\* C27 amended: the same, except when max_speakers is 2, the list has more
\* than 5 segments and the segment before is the 5th, 9th, 13th, ... of the
\* list: the advance after every such segment and the advance for the pause
\* then bring the counter back to the label of the segment before.
C27_PauseChangesLabelUnlessVarietyCancels ==
    (diar.pc # "idle" /\ diar.max_speakers >= 2)
        => \A j \in Labelled :
              (/\ j > 1
               /\ diar.segments[j].start - diar.segments[j - 1].end > 20
               /\ ~(/\ diar.max_speakers = 2
                    /\ Len(diar.segments) > 5
                    /\ j > 2
                    /\ (j - 2) % 4 = 0))
                  => diar.segments[j].speaker # diar.segments[j - 1].speaker

C27_Witness ==
    /\ diar.pc = "done"
    /\ diar.max_speakers = 2
    /\ diar.original = ExampleSegments
    /\ diar.segments[2].speaker = <<"Speaker", 1>>
    /\ diar.segments[3].speaker = <<"Speaker", 2>>

\* the case C27 as stated leaves out: six segments, max_speakers = 2, a
\* pause before the sixth, and the fifth and sixth carry the same label
C27_WitnessCancelled ==
    /\ diar.pc = "done"
    /\ diar.max_speakers = 2
    /\ Len(diar.segments) = 6
    /\ diar.segments[6].start - diar.segments[5].end > 20
    /\ diar.segments[6].speaker = diar.segments[5].speaker

\* C23: a call of analyze_transcript_with_claude sends one request, and none
\* before it is made; when the endpoint answers a status other than 200,
\* when the timeout passes and when the connection fails, the call raises
\* ClaudeAnalyzerError after that one request, with the message of a wrong
\* key for 401, of the rate limit for 429, of a server error for 500 and
\* above, and the message carrying the status for every other status.
C23_OneRequestFailureClassified ==
    /\ claude.pc # "done" => claude.requests = 0
    /\ claude.pc = "done" =>
          /\ claude.requests = 1
          /\ claude.outcome.kind \in {"status", "timeout", "network"}
                => /\ claude.result.kind = "raise"
                   /\ claude.result.error = "ClaudeAnalyzerError"
          /\ claude.outcome.kind = "status"
                => claude.result.message =
                      (CASE claude.outcome.status = 401
                              -> "Invalid Claude API key"
                         [] claude.outcome.status = 429
                              -> "Claude API rate limit exceeded - please try again in a few minutes"
                         [] claude.outcome.status \in 500..599
                              -> "Claude API server error - please try again later"
                         [] OTHER
                              -> "Claude API error {response.status}: {error_text}")
          /\ claude.result.status =
                IF claude.outcome.kind = "status"
                   /\ claude.outcome.status \notin {401, 429}
                   /\ claude.outcome.status < 500
                THEN claude.outcome.status ELSE 0

C23_Witness ==
    /\ claude.pc = "done"
    /\ claude.requests = 1
    /\ claude.outcome.kind = "status"
    /\ claude.outcome.status = 500
    /\ claude.result.kind = "raise"
    /\ claude.result.message = "Claude API server error - please try again later"

\* C24: when the endpoint answers 200 with a response text, the call returns
\* a document, the document of a text that does not begin with
\* "<!DOCTYPE html" is that text wrapped, and the document begins with
\* "<!DOCTYPE html".
C24_DocumentBeginsWithMarker ==
    (claude.pc = "done" /\ claude.outcome.kind = "text")
        => /\ claude.result.kind = "return"
           /\ (claude.outcome.text = <<>> \/ claude.outcome.text[1] # "<!DOCTYPE html")
                 => claude.result.document = wrap_in_html(claude.outcome.text)
           /\ claude.result.document # <<>>
           /\ claude.result.document[1] = "<!DOCTYPE html"

\* the part of C24 the code keeps: a document is returned whatever the text
\* is, and it begins with "<!DOCTYPE html" after leading whitespace
C24_DocumentReturnedMarkerAfterWhitespace ==
    (claude.pc = "done" /\ claude.outcome.kind = "text")
        => /\ claude.result.kind = "return"
           /\ LStrip(claude.result.document) # <<>>
           /\ LStrip(claude.result.document)[1] = "<!DOCTYPE html"

\* a token that passes every check of verify_access_token: a JWT signed with
\* the server's key, not expired, with the server's issuer and audience, a
\* principal, and the type "access" or none
ValidBearer(token) ==
    /\ token.raw = "jwt"
    /\ token.key = "secret"
    /\ ~token.expired
    /\ token.iss = "whisper-api"
    /\ token.aud = "whisper-api-users"
    /\ token.sub # <<>>
    /\ token.type \in {"", "access"}

\* the initData of an /auth request verifies: verify_telegram_init_data
\* returns a user, whose username /auth can lower-case
TelegramVerified(request) ==
    /\ verify_telegram_init_data(request.call).kind = "return"
    /\ request.call.ENV = "dev" => request.dev_username_set

C21_WitnessBearer ==
    /\ login.pc = "done"
    /\ login.request.kind = "bearer"
    /\ ValidBearer(login.request.token)
    /\ login.request.token.sub = <<"b">>
    /\ login.request.ALLOWED_USERNAMES = {<<"a">>}
    /\ login.result.code = 403
    /\ login.result.detail = "Access denied"

C21_WitnessTokenIssued ==
    /\ login.pc = "done"
    /\ login.request.kind = "auth"
    /\ login.result.kind = "return"
    /\ login.result.access_token.sub = <<"a">>

\* C22: every token that get_current_username is handed and that does not
\* pass verify_access_token (wrong key, no JWT, expired, wrong issuer, wrong
\* audience, no principal, wrong type, empty, blank) is answered with the
\* one outcome 401 "Invalid or expired token"; a token that passes is not.
C22_TokenFailuresAnsweredAlike ==
    (login.pc = "done" /\ login.request.kind = "bearer")
        => IF ValidBearer(login.request.token)
           THEN login.result.code # 401
           ELSE /\ login.result.kind = "http_error"
                /\ login.result.code = 401
                /\ login.result.detail = "Invalid or expired token"
                /\ login.result.username = <<>>
                /\ login.result.access_token.raw = "none"

C22_Witness ==
    /\ login.pc = "done"
    /\ login.request.kind = "bearer"
    /\ ValidBearer([login.request.token EXCEPT !.expired = FALSE])
    /\ login.request.token.expired
    /\ login.request.token.sub \in login.request.ALLOWED_USERNAMES
    /\ login.result.code = 401
    /\ login.result.detail = "Invalid or expired token"

C22_WitnessEmpty ==
    /\ login.pc = "done"
    /\ login.request.kind = "bearer"
    /\ login.request.token.raw = ""
    /\ login.result.code = 401

\* C26: in dev mode with no ALLOWED_USERNAMES configured, a principal whose
\* credential verifies is not refused by the allow-list check of /auth or
\* of get_current_username.
C26_DevEmptyAllowListAllowsAll ==
    (/\ login.pc = "done"
     /\ login.request.call.ENV = "dev"
     /\ login.request.ALLOWED_USERNAMES = {}
     /\ IF login.request.kind = "bearer"
        THEN ValidBearer(login.request.token)
        ELSE login.request.dev_username_set)
        => ~(login.result.code = 403 /\ login.result.detail = "Access denied")

====
